---- MODULE Spec2Model ----
(***************************************************************************)
(* Model of process_annotations.py: the annotation quality-control batch   *)
(* job (read CSV -> confidence filter -> group by text -> agreement check   *)
(* -> write the clean dataset and the disagreement report).                *)
(*                                                                         *)
(* Strings are sequences of one-character tokens, so that line breaks,     *)
(* JSON escaping and lexicographic sorting are computed, not assumed.      *)
(* Fixed literal fragments of the output formats are single tokens (they   *)
(* hold no line break).  Floats are integers in hundredths.                *)
(***************************************************************************)
EXTENDS Integers, Sequences, FiniteSets, TLC

\* ------------------------------------------------------------------ bounds
MaxRows == 3
MaxRuns == 2

\* ------------------------------------------------------- program constants
\* CONFIDENCE_THRESHOLD = 0.8, in hundredths
CONFIDENCE_THRESHOLD == 80

\* Python's None: a one-token value no character string can equal.
None == <<"<None>">>

LF == "\n"

\* ------------------------------------------------------------ input domain
Texts == { <<"x">>, <<"y", LF, "z">> }
Labels == { <<"c", "a", "t">>, <<"d", "o", "g">> }
AnnotatorCell == <<"a">>

\* The header rows of the input file: the documented one, one whose
\* confidence column is named otherwise, one whose label column is.
HeaderFull == <<"text", "annotator_id", "label", "confidence_score">>
HeaderNoConf == <<"text", "annotator_id", "label", "score">>
HeaderNoLabel == <<"text", "annotator_id", "tag", "confidence_score">>
Headers == { HeaderFull, HeaderNoConf, HeaderNoLabel }

\* Data rows as the csv reader tokenises them.  Every text and label with a
\* confidence at the threshold ("0.8") and below it ("0.5"); a row with a
\* confidence above it ("0.9") and one with a non-numeric confidence ("abc");
\* and a row shorter than the header, which ends before the confidence cell.
BoundaryRows ==
    { <<t, AnnotatorCell, l, c>> :
        t \in Texts, l \in Labels, c \in { <<"0", ".", "8">>, <<"0", ".", "5">> } }
OtherRows ==
    { << <<"x">>, AnnotatorCell, <<"c", "a", "t">>, <<"0", ".", "9">> >>,
      << <<"x">>, AnnotatorCell, <<"d", "o", "g">>, <<"a", "b", "c">> >> }
ShortRows == { << <<"x">>, AnnotatorCell, <<"d", "o", "g">> >> }
RowPool == BoundaryRows \cup OtherRows \cup ShortRows

SeqsUpTo(S, n) == UNION { [1..k -> S] : k \in 0..n }

\* ----------------------------------------------------------- csv.DictReader
\* One data row as a dict keyed by the header's names; fields the row is too
\* short for are None (restval).
DictRow(header, row) ==
    [ k \in { header[i] : i \in 1..Len(header) } |->
        LET i == CHOOSE j \in 1..Len(header) : header[j] = k
        IN  IF i <= Len(row) THEN row[i] ELSE None ]

\* ------------------------------------------------------------------ float()
IsDigit(c) == c \in {"0", "1", "2", "3", "4", "5", "6", "7", "8", "9"}

DigitVal(c) ==
    CASE c = "0" -> 0 [] c = "1" -> 1 [] c = "2" -> 2 [] c = "3" -> 3
      [] c = "4" -> 4 [] c = "5" -> 5 [] c = "6" -> 6 [] c = "7" -> 7
      [] c = "8" -> 8 [] c = "9" -> 9

\* float(v): the value in hundredths, or the exception raised.
float(v) ==
    IF v = None THEN [exc |-> "TypeError", val |-> 0]
    ELSE IF Len(v) = 1 /\ IsDigit(v[1])
         THEN [exc |-> "none", val |-> 100 * DigitVal(v[1])]
    ELSE IF Len(v) = 3 /\ IsDigit(v[1]) /\ v[2] = "." /\ IsDigit(v[3])
         THEN [exc |-> "none", val |-> 100 * DigitVal(v[1]) + 10 * DigitVal(v[3])]
    ELSE IF Len(v) = 4 /\ IsDigit(v[1]) /\ v[2] = "." /\ IsDigit(v[3]) /\ IsDigit(v[4])
         THEN [exc |-> "none",
               val |-> 100 * DigitVal(v[1]) + 10 * DigitVal(v[3]) + DigitVal(v[4])]
    ELSE [exc |-> "ValueError", val |-> 0]

\* ------------------------------------------------------ filter_by_confidence
\* One iteration of the loop body over `row`, given the result so far.
FilterRow(res, row, threshold) ==
    IF "confidence_score" \notin DOMAIN row
    THEN res                                    \* KeyError: continue
    ELSE LET f == float(row["confidence_score"])
         IN  IF f.exc = "ValueError" THEN res   \* ValueError: continue
             ELSE IF f.exc # "none" THEN [res EXCEPT !.exc = f.exc]
             ELSE IF f.val >= threshold
                  THEN IF "text" \notin DOMAIN row \/ "label" \notin DOMAIN row
                       THEN [res EXCEPT !.exc = "KeyError"]
                       ELSE [res EXCEPT !.val = Append(@,
                               [ text |-> row["text"],
                                 annotator_id |-> IF "annotator_id" \in DOMAIN row
                                                  THEN row["annotator_id"] ELSE None,
                                 label |-> row["label"],
                                 confidence_score |-> f.val ])]
                  ELSE res

RECURSIVE FilterFrom(_, _, _, _)
FilterFrom(res, annotations, i, threshold) ==
    IF i > Len(annotations) \/ res.exc # "none" THEN res
    ELSE FilterFrom(FilterRow(res, annotations[i], threshold), annotations, i + 1, threshold)

filter_by_confidence(annotations, threshold) ==
    FilterFrom([exc |-> "none", val |-> <<>>], annotations, 1, threshold)

\* ------------------------------------------------------------- group_by_text
\* An insertion-ordered dict: its keys in insertion order, and its values.
EmptyDict == [keys |-> <<>>, val |-> <<>>]

KeySet(d) == { d.keys[i] : i \in 1..Len(d.keys) }

\* Mutant of GroupAdd: the group is replaced instead of extended
\* (grouped[text] = [ann] for grouped[text].append(ann)).
GroupAddOverwrite(grouped, ann) ==
    IF ann.text \in KeySet(grouped)
    THEN [grouped EXCEPT !.val = [@ EXCEPT ![ann.text] = <<ann>>]]
    ELSE [keys |-> Append(grouped.keys, ann.text),
          val |-> (ann.text :> <<ann>>) @@ grouped.val]

GroupAdd(grouped, ann) ==
    IF ann.text \in KeySet(grouped)
    THEN [grouped EXCEPT !.val = [@ EXCEPT ![ann.text] = Append(@, ann)]]
    ELSE [keys |-> Append(grouped.keys, ann.text),
          val |-> (ann.text :> <<ann>>) @@ grouped.val]

RECURSIVE GroupFrom(_, _, _)
GroupFrom(grouped, annotations, i) ==
    IF i > Len(annotations) THEN grouped
    ELSE GroupFrom(GroupAdd(grouped, annotations[i]), annotations, i + 1)

group_by_text(annotations) == GroupFrom(EmptyDict, annotations, 1)

\* ----------------------------------------------------- apply_agreement_check
LabelsOf(anns) == { anns[i].label : i \in 1..Len(anns) }

\* Mutant of ResolveGroup: the agreed sample is recorded before the labels
\* are compared, so a text in disagreement is emitted twice.
ResolveGroupBoth(res, text, anns) ==
    LET labels == LabelsOf(anns)
        withAgreed == [res EXCEPT !.agreed =
                          [keys |-> Append(@.keys, text),
                           val |-> (text :> (CHOOSE l \in labels : TRUE)) @@ @.val]]
    IN  IF Cardinality(labels) = 1
        THEN withAgreed
        ELSE [withAgreed EXCEPT !.disagreements = Append(@, <<text, labels>>)]

\* Mutant of ResolveGroup: the labels are not compared; the first
\* annotation's label is taken as the agreed one.
ResolveGroupFirstLabel(res, text, anns) ==
    [res EXCEPT !.agreed =
        [keys |-> Append(@.keys, text), val |-> (text :> anns[1].label) @@ @.val]]

ResolveGroup(res, text, anns) ==
    LET labels == LabelsOf(anns)
    IN  IF Cardinality(labels) = 1
        THEN [res EXCEPT !.agreed =
                 [keys |-> Append(@.keys, text),
                  val |-> (text :> (CHOOSE l \in labels : TRUE)) @@ @.val]]
        ELSE [res EXCEPT !.disagreements = Append(@, <<text, labels>>)]

RECURSIVE ResolveFrom(_, _, _)
ResolveFrom(res, grouped, i) ==
    IF i > Len(grouped.keys) THEN res
    ELSE ResolveFrom(ResolveGroup(res, grouped.keys[i], grouped.val[grouped.keys[i]]),
                     grouped, i + 1)

apply_agreement_check(grouped) ==
    ResolveFrom([agreed |-> EmptyDict, disagreements |-> <<>>], grouped, 1)

\* ---------------------------------------------------------------- json.dumps
\* The escapes json.dumps applies to the characters of a string.
JsonEscapeChar(c) ==
    IF c = "\"" THEN <<"\\", "\"">>
    ELSE IF c = "\\" THEN <<"\\", "\\">>
    ELSE IF c = LF THEN <<"\\", "n">>
    ELSE <<c>>

RECURSIVE JsonEscape(_)
JsonEscape(s) == IF s = <<>> THEN <<>> ELSE JsonEscapeChar(Head(s)) \o JsonEscape(Tail(s))

JsonValue(v) == IF v = None THEN <<"null">> ELSE <<"\"">> \o JsonEscape(v) \o <<"\"">>

\* json.dumps({"text": text, "label": label}, ensure_ascii=False) + "\n"
CleanLine(text, label) ==
    <<"{\"text\": ">> \o JsonValue(text) \o <<", \"label\": ">> \o JsonValue(label)
        \o <<"}">> \o <<LF>>

\* ------------------------------------------------------- sorted, join, format
\* The characters of the model in code-point order.
Alphabet == << LF, "\"", ".", "0", "1", "2", "3", "4", "5", "6", "7", "8", "9", "\\",
               "a", "b", "c", "d", "e", "f", "g", "h", "i", "j", "k", "l", "m",
               "n", "o", "p", "q", "r", "s", "t", "u", "v", "w", "x", "y", "z" >>

Ord(c) == CHOOSE i \in 1..Len(Alphabet) : Alphabet[i] = c

\* str.__lt__: lexicographic by code point.
StrLess(a, b) ==
    \E k \in 1..(Len(a) + 1) :
        /\ \A j \in 1..(k - 1) : j <= Len(b) /\ a[j] = b[j]
        /\ \/ k > Len(a) /\ k <= Len(b)
           \/ k <= Len(a) /\ k <= Len(b) /\ Ord(a[k]) < Ord(b[k])

RECURSIVE SortedSeq(_)
SortedSeq(S) ==
    IF S = {} THEN <<>>
    ELSE LET m == CHOOSE x \in S : \A y \in S \ {x} : StrLess(x, y)
         IN  <<m>> \o SortedSeq(S \ {m})

\* sorted(labels): None does not compare with a str.
sorted(labels) ==
    IF None \in labels /\ Cardinality(labels) > 1
    THEN [exc |-> "TypeError", val |-> <<>>]
    ELSE [exc |-> "none", val |-> SortedSeq(labels)]

\* ", ".join(list)
RECURSIVE Join(_)
Join(list) ==
    IF list = <<>> THEN <<>>
    ELSE IF Len(list) = 1 THEN list[1]
    ELSE list[1] \o <<",", " ">> \o Join(Tail(list))

\* str(v) as an f-string formats it.
Str(v) == IF v = None THEN <<"N", "o", "n", "e">> ELSE v

\* f'TEXT: {text} | LABELS: {label_list}\n'
LogLine(text, label_list) ==
    <<"TEXT: ">> \o Str(text) \o <<" | LABELS: ">> \o label_list \o <<LF>>

\* ---------------------------------------------------------------------- state
VARIABLES
    input,            \* raw_annotations.csv: [exists, header, rows]
    fs,               \* the two output files: name -> [exists, data]
    open,             \* the files currently open
    pc,               \* where main is
    exc,              \* the exception that ended the run and the function that raised it
    raw_annotations,  \* main's locals
    high_conf_annotations,
    grouped,
    agreed_samples,
    disagreements,
    wi,               \* write_outputs: index of the next entry to write
    run,              \* how many times the program was started
    touched,          \* the output files this run opened for writing
    prev              \* how the previous run ended: [done, fs]

vars == << input, fs, open, pc, exc, raw_annotations, high_conf_annotations, grouped,
           agreed_samples, disagreements, wi, run, touched, prev >>

locals == << raw_annotations, high_conf_annotations, grouped, agreed_samples,
             disagreements, wi >>

NoExc == [type |-> "none", at |-> "none"]

NoFile == [exists |-> FALSE, data |-> <<>>]

Init ==
    /\ input \in
          { [exists |-> TRUE, header |-> h, rows |-> r] :
                h \in Headers, r \in SeqsUpTo(RowPool, MaxRows) }
          \cup { [exists |-> FALSE, header |-> <<>>, rows |-> <<>>] }
    /\ fs = [clean |-> NoFile, log |-> NoFile]
    /\ open = {}
    /\ pc = "start"
    /\ exc = NoExc
    /\ raw_annotations = <<>>
    /\ high_conf_annotations = <<>>
    /\ grouped = EmptyDict
    /\ agreed_samples = EmptyDict
    /\ disagreements = <<>>
    /\ wi = 1
    /\ run = 1
    /\ touched = {}
    /\ prev = [done |-> FALSE, fs |-> [clean |-> NoFile, log |-> NoFile]]

\* An exception leaves main: the run is over.
Raise(e, where) == pc' = "failed" /\ exc' = [type |-> e, at |-> where]

\* -------------------------------------------------------- read_raw_annotations
\* open(input_path, mode="r")
OpenInput ==
    /\ pc = "start"
    /\ input.exists
    /\ open' = open \cup {"input"}
    /\ pc' = "reading"
    /\ UNCHANGED << input, fs, exc, locals, run, touched, prev >>

\* open raises: the file is missing (FileNotFoundError) or unreadable.
OpenInputFail ==
    /\ pc = "start"
    /\ Raise(IF input.exists THEN "PermissionError" ELSE "FileNotFoundError",
             "read_raw_annotations")
    /\ UNCHANGED << input, fs, open, locals, run, touched, prev >>

\* The DictReader loop, then the with block closes the file.
ReadRows ==
    /\ pc = "reading"
    /\ raw_annotations' = [ i \in 1..Len(input.rows) |-> DictRow(input.header, input.rows[i]) ]
    /\ open' = open \ {"input"}
    /\ pc' = "loaded"
    /\ UNCHANGED << input, fs, exc, high_conf_annotations, grouped, agreed_samples,
                    disagreements, wi, run, touched, prev >>

\* Reading raises inside the with block, which closes the file.
ReadRowsFail ==
    /\ pc = "reading"
    /\ open' = open \ {"input"}
    /\ Raise("UnicodeDecodeError", "read_raw_annotations")
    /\ UNCHANGED << input, fs, locals, run, touched, prev >>

\* ------------------------------------------------------------- main, steps b-c
FilterByConfidence ==
    /\ pc = "loaded"
    /\ LET r == filter_by_confidence(raw_annotations, CONFIDENCE_THRESHOLD)
       IN  IF r.exc = "none"
           THEN /\ high_conf_annotations' = r.val
                /\ pc' = "filtered"
                /\ exc' = exc
           ELSE /\ high_conf_annotations' = high_conf_annotations
                /\ Raise(r.exc, "filter_by_confidence")
    /\ UNCHANGED << input, fs, open, raw_annotations, grouped, agreed_samples,
                    disagreements, wi, run, touched, prev >>

GroupByText ==
    /\ pc = "filtered"
    /\ grouped' = group_by_text(high_conf_annotations)
    /\ pc' = "grouped"
    /\ UNCHANGED << input, fs, open, exc, raw_annotations, high_conf_annotations,
                    agreed_samples, disagreements, wi, run, touched, prev >>

ApplyAgreementCheck ==
    /\ pc = "grouped"
    /\ LET r == apply_agreement_check(grouped)
       IN  /\ agreed_samples' = r.agreed
           /\ disagreements' = r.disagreements
    /\ pc' = "resolved"
    /\ UNCHANGED << input, fs, open, exc, raw_annotations, high_conf_annotations,
                    grouped, wi, run, touched, prev >>

\* ---------------------------------------------------------------- write_outputs
\* Mutant of OpenForWrite: mode "a", which keeps what the file holds.
OpenForAppend(name) ==
    /\ fs' = [fs EXCEPT ![name].exists = TRUE]
    /\ open' = open \cup {name}
    /\ touched' = touched \cup {name}
    /\ wi' = 1

\* open(path, mode="w"): creates the file, or truncates it.
OpenForWrite(name) ==
    /\ fs' = [fs EXCEPT ![name] = [exists |-> TRUE, data |-> <<>>]]
    /\ open' = open \cup {name}
    /\ touched' = touched \cup {name}
    /\ wi' = 1

\* f.write(line)
WriteTo(name, line) == fs' = [fs EXCEPT ![name].data = @ \o line]

\* Mutant of CloseFile: the file is opened without a with block and is
\* never closed.
CloseFileLeak(name) == open' = open

\* The with block ends, normally or by an exception: the file is closed.
CloseFile(name) == open' = open \ {name}

OpenClean ==
    /\ pc = "resolved"
    /\ OpenForWrite("clean")
    /\ pc' = "clean_open"
    /\ UNCHANGED << input, exc, raw_annotations, high_conf_annotations, grouped,
                    agreed_samples, disagreements, run, prev >>

OpenCleanFail ==
    /\ pc = "resolved"
    /\ Raise("OSError", "write_outputs")
    /\ UNCHANGED << input, fs, open, locals, run, touched, prev >>

WriteCleanRecord ==
    /\ pc = "clean_open"
    /\ wi <= Len(agreed_samples.keys)
    /\ LET text == agreed_samples.keys[wi]
       IN  WriteTo("clean", CleanLine(text, agreed_samples.val[text]))
    /\ wi' = wi + 1
    /\ UNCHANGED << input, open, pc, exc, raw_annotations, high_conf_annotations,
                    grouped, agreed_samples, disagreements, run, touched, prev >>

WriteCleanFail ==
    /\ pc = "clean_open"
    /\ wi <= Len(agreed_samples.keys)
    /\ CloseFile("clean")
    /\ Raise("OSError", "write_outputs")
    /\ UNCHANGED << input, fs, locals, run, touched, prev >>

CloseClean ==
    /\ pc = "clean_open"
    /\ wi > Len(agreed_samples.keys)
    /\ CloseFile("clean")
    /\ pc' = "clean_closed"
    /\ UNCHANGED << input, fs, exc, locals, run, touched, prev >>

OpenLog ==
    /\ pc = "clean_closed"
    /\ OpenForWrite("log")
    /\ pc' = "log_open"
    /\ UNCHANGED << input, exc, raw_annotations, high_conf_annotations, grouped,
                    agreed_samples, disagreements, run, prev >>

OpenLogFail ==
    /\ pc = "clean_closed"
    /\ Raise("OSError", "write_outputs")
    /\ UNCHANGED << input, fs, open, locals, run, touched, prev >>

WriteLogLine ==
    /\ pc = "log_open"
    /\ wi <= Len(disagreements)
    /\ LET text == disagreements[wi][1]
           s == sorted(disagreements[wi][2])
       IN  IF s.exc = "none"
           THEN /\ WriteTo("log", LogLine(text, Join(s.val)))
                /\ wi' = wi + 1
                /\ UNCHANGED << open, pc, exc >>
           ELSE /\ CloseFile("log")
                /\ Raise(s.exc, "write_outputs")
                /\ UNCHANGED << fs, wi >>
    /\ UNCHANGED << input, raw_annotations, high_conf_annotations, grouped,
                    agreed_samples, disagreements, run, touched, prev >>

WriteLogFail ==
    /\ pc = "log_open"
    /\ wi <= Len(disagreements)
    /\ CloseFile("log")
    /\ Raise("OSError", "write_outputs")
    /\ UNCHANGED << input, fs, locals, run, touched, prev >>

\* The report is closed; write_outputs returns and main ends.
CloseLog ==
    /\ pc = "log_open"
    /\ wi > Len(disagreements)
    /\ CloseFile("log")
    /\ pc' = "done"
    /\ UNCHANGED << input, fs, exc, locals, run, touched, prev >>

\* ------------------------------------------------------------------- invocation
\* The program has ended and is started again on the unchanged input.
Rerun ==
    /\ pc \in {"done", "failed"}
    /\ run < MaxRuns
    /\ prev' = [done |-> pc = "done", fs |-> fs]
    /\ run' = run + 1
    /\ pc' = "start"
    /\ exc' = NoExc
    /\ raw_annotations' = <<>>
    /\ high_conf_annotations' = <<>>
    /\ grouped' = EmptyDict
    /\ agreed_samples' = EmptyDict
    /\ disagreements' = <<>>
    /\ wi' = 1
    /\ touched' = {}
    /\ UNCHANGED << input, fs, open >>

Next ==
    \/ OpenInput
    \/ OpenInputFail
    \/ ReadRows
    \/ ReadRowsFail
    \/ FilterByConfidence
    \/ GroupByText
    \/ ApplyAgreementCheck
    \/ OpenClean
    \/ OpenCleanFail
    \/ WriteCleanRecord
    \/ WriteCleanFail
    \/ CloseClean
    \/ OpenLog
    \/ OpenLogFail
    \/ WriteLogLine
    \/ WriteLogFail
    \/ CloseLog
    \/ Rerun

Spec == Init /\ [][Next]_vars

\* ============================================================ properties
IOErrors == {"FileNotFoundError", "PermissionError", "UnicodeDecodeError", "OSError"}

\* main has called filter_by_confidence (which returned or raised).
FilterAttempted ==
    \/ pc \in {"filtered", "grouped", "resolved", "clean_open", "clean_closed",
               "log_open", "done"}
    \/ pc = "failed" /\ exc.at \in {"filter_by_confidence", "write_outputs"}

\* group_by_text has returned.
GroupingDone ==
    \/ pc \in {"grouped", "resolved", "clean_open", "clean_closed", "log_open", "done"}
    \/ pc = "failed" /\ exc.at = "write_outputs"

\* apply_agreement_check has returned.
ResolvingDone == GroupingDone /\ pc # "grouped"

\* Every record has the text and label fields (the header names both columns).
HasTextAndLabel(rows) ==
    \A i \in 1..Len(rows) : "text" \in DOMAIN rows[i] /\ "label" \in DOMAIN rows[i]

\* The record's confidence_score is present, parses as a number and is >= tau.
Qualifies(row, tau) ==
    /\ "confidence_score" \in DOMAIN row
    /\ row["confidence_score"] # None
    /\ float(row["confidence_score"]).exc = "none"
    /\ float(row["confidence_score"]).val >= tau

\* The subsequence of the qualifying records, text and label passed through.
QualifyingSubseq(rows, tau) ==
    LET q == SelectSeq(rows, LAMBDA r : Qualifies(r, tau))
    IN  [ i \in 1..Len(q) |->
            [ text |-> q[i]["text"],
              annotator_id |-> q[i]["annotator_id"],
              label |-> q[i]["label"],
              confidence_score |-> float(q[i]["confidence_score"]).val ] ]

TextsOf(anns) == { anns[i].text : i \in 1..Len(anns) }

Occurrences(seq, x) == Cardinality({ i \in 1..Len(seq) : seq[i] = x })

DisagreementTexts == [ i \in 1..Len(disagreements) |-> disagreements[i][1] ]

FirstIndex(anns, t) == CHOOSE i \in 1..Len(anns) :
    anns[i].text = t /\ \A j \in 1..(i - 1) : anns[j].text # t

\* The lines of a file: the text between line breaks.
RECURSIVE SplitLinesFrom(_, _, _)
SplitLinesFrom(data, i, cur) ==
    IF i > Len(data) THEN (IF cur = <<>> THEN <<>> ELSE <<cur>>)
    ELSE IF data[i] = LF THEN <<cur>> \o SplitLinesFrom(data, i + 1, <<>>)
    ELSE SplitLinesFrom(data, i + 1, Append(cur, data[i]))

SplitLines(data) == SplitLinesFrom(data, 1, <<>>)

WithoutLineEnd(line) == SubSeq(line, 1, Len(line) - 1)

\* C1: for every raw record sequence, filter_by_confidence returns exactly the
\* subsequence, in input order, of the records whose confidence_score is
\* present, numeric and >= the threshold, text and label passed through.
\* (Stated for inputs whose header names the text and label columns.)
C1_FilterReturnsQualifying ==
    (FilterAttempted /\ HasTextAndLabel(raw_annotations)) =>
        /\ exc.at # "filter_by_confidence"
        /\ high_conf_annotations = QualifyingSubseq(raw_annotations, CONFIDENCE_THRESHOLD)

\* C2: a record whose confidence_score is missing (a row shorter than the
\* header included), non-numeric or below the threshold is dropped silently:
\* filter_by_confidence raises nothing for it and the run continues.
C2_ConfidenceIssueNeverRaises ==
    HasTextAndLabel(raw_annotations) => exc.at # "filter_by_confidence"

\* C3: after apply_agreement_check every distinct text with at least one
\* accepted annotation appears exactly once in the agreed samples and the
\* disagreements taken together.
C3_TextInExactlyOneResult ==
    ResolvingDone =>
        \A t \in TextsOf(high_conf_annotations) :
            Occurrences(agreed_samples.keys, t) + Occurrences(DisagreementTexts, t) = 1

C3_Witness ==
    /\ pc = "resolved"
    /\ Len(agreed_samples.keys) = 1
    /\ Len(disagreements) = 1
    /\ Len(high_conf_annotations) = 3

\* C4: a text is an agreed sample iff its accepted annotations have exactly
\* one distinct label, which is the label emitted; it is a disagreement iff
\* they have two or more, and the set emitted is the group's full label set.
C4_AgreedIffOneLabel ==
    ResolvingDone =>
        /\ \A t \in KeySet(grouped) :
             LET labels == LabelsOf(grouped.val[t])
             IN  /\ (t \in KeySet(agreed_samples)) <=> (Cardinality(labels) = 1)
                 /\ (t \in KeySet(agreed_samples)) => (labels = {agreed_samples.val[t]})
                 /\ (Occurrences(DisagreementTexts, t) > 0) <=> (Cardinality(labels) >= 2)
        /\ \A i \in 1..Len(disagreements) :
             /\ disagreements[i][1] \in KeySet(grouped)
             /\ disagreements[i][2] = LabelsOf(grouped.val[disagreements[i][1]])
             /\ Cardinality(disagreements[i][2]) >= 2
        /\ KeySet(agreed_samples) \subseteq KeySet(grouped)

C4_Witness ==
    /\ pc = "resolved"
    /\ \E t \in KeySet(agreed_samples) : Len(grouped.val[t]) = 1
    /\ \E i \in 1..Len(disagreements) : Len(grouped.val[disagreements[i][1]]) = 2

\* C5: group_by_text partitions the accepted sequence by text: one non-empty
\* group per distinct text holding exactly the annotations of that text in
\* their accepted order, the keys in order of first occurrence.
C5_GroupsPartitionAccepted ==
    GroupingDone =>
        /\ KeySet(grouped) = TextsOf(high_conf_annotations)
        /\ DOMAIN grouped.val = KeySet(grouped)
        /\ \A i, j \in 1..Len(grouped.keys) :
             i < j => /\ grouped.keys[i] # grouped.keys[j]
                      /\ FirstIndex(high_conf_annotations, grouped.keys[i])
                           < FirstIndex(high_conf_annotations, grouped.keys[j])
        /\ \A t \in KeySet(grouped) :
             /\ grouped.val[t] # <<>>
             /\ grouped.val[t] = SelectSeq(high_conf_annotations, LAMBDA a : a.text = t)

C5_Witness ==
    /\ pc = "grouped"
    /\ Len(grouped.keys) = 2
    /\ Len(high_conf_annotations) = 3
    /\ high_conf_annotations[1].text = high_conf_annotations[3].text
    /\ high_conf_annotations[1].text # high_conf_annotations[2].text
    /\ high_conf_annotations[1] # high_conf_annotations[3]

\* C6: a run ended by a fatal I/O error has created, truncated or written
\* neither output file.
C6_FailedRunTouchesNoOutput ==
    (pc = "failed" /\ exc.type \in IOErrors) => touched = {}

\* C7: a complete run on the input of the preceding complete run leaves both
\* output files with the content that run left.
C7_SecondRunSameOutputs ==
    (pc = "done" /\ run > 1 /\ prev.done) => fs = prev.fs

C7_Witness ==
    /\ pc = "done"
    /\ run = 2
    /\ prev.done
    /\ fs.clean.data # <<>>
    /\ fs.log.data # <<>>

\* C8: after a successful write_outputs the clean dataset has one line per
\* agreed sample (its JSON record) and the report one line per disagreement,
\* 'TEXT: <text> | LABELS: <labels sorted, joined by ", ">'.
C8_OneLinePerEntry ==
    pc = "done" =>
        /\ SplitLines(fs.clean.data) =
             [ i \in 1..Len(agreed_samples.keys) |->
                 WithoutLineEnd(CleanLine(agreed_samples.keys[i],
                                          agreed_samples.val[agreed_samples.keys[i]])) ]
        /\ SplitLines(fs.log.data) =
             [ i \in 1..Len(disagreements) |->
                 <<"TEXT: ">> \o disagreements[i][1] \o <<" | LABELS: ">>
                     \o Join(SortedSeq(disagreements[i][2])) ]

\* C9: at most one of the three files is open, each only within the stage
\* that uses it, and none once the run has ended (completed or failed).
C9_FilesScopedToStage ==
    /\ Cardinality(open) <= 1
    /\ "input" \in open => pc = "reading"
    /\ "clean" \in open => pc = "clean_open"
    /\ "log" \in open => pc = "log_open"
    /\ pc \in {"done", "failed"} => open = {}

C9_Witness ==
    /\ pc = "failed"
    /\ exc = [type |-> "OSError", at |-> "write_outputs"]
    /\ touched = {"clean", "log"}
    /\ Len(disagreements) = 1
    /\ fs.clean.data # <<>>
    /\ open = {}

\* C10: the result depends only on the qualifying records: the run ends as
\* the pipeline does on the input stripped of every other record, which
\* neither raises in the filter nor yields other agreed samples or
\* disagreements.
C10_RejectedRecordsHaveNoInfluence ==
    (FilterAttempted /\ HasTextAndLabel(raw_annotations)) =>
        /\ exc.at # "filter_by_confidence"
        /\ ResolvingDone =>
             LET r == apply_agreement_check(group_by_text(
                          QualifyingSubseq(raw_annotations, CONFIDENCE_THRESHOLD)))
             IN  agreed_samples = r.agreed /\ disagreements = r.disagreements

====
